---- MODULE Spec2Model ----
(***************************************************************************)
(* Task-orchestration core: TaskDecomposer (parseDecomposition,            *)
(* buildExecutionPlan), KnowledgeGraphService (buildProjectGraph,          *)
(* getRelevantContext) and ContextCompressor (compress).                   *)
(*                                                                         *)
(* Each component is a synchronous, in-memory object; each has its own     *)
(* specification (SpecPlan, SpecParse, SpecGraph, SpecCompress) over the   *)
(* variables it owns, the other variables staying at their idle value.     *)
(***************************************************************************)
EXTENDS Integers, Sequences, FiniteSets, TLC

VARIABLES
  pc,        \* position of the component under study: "input" | "done"
  tasks,     \* argument of buildExecutionPlan: a sequence of task records
  plan,      \* outcome of buildExecutionPlan: returned order or thrown error
  content,   \* argument of parseDecomposition, as JSON.parse and taskPattern see it
  parsed,    \* the array parseDecomposition returned
  graph,     \* KnowledgeGraphService.graph: the nodes and edges of the Graph
  scans,     \* history: the arguments of the buildProjectGraph calls so far
  query,     \* arguments of the last getRelevantContext call
  context,   \* outcome of the last getRelevantContext call
  request,   \* the ContextCompressor method called and its arguments
  response,  \* what the method returned, and its argument as the call left it
  run        \* the processPrompt call: its arguments, finished steps and worker

vars == <<pc, tasks, plan, content, parsed, graph, scans, query, context,
          request, response, run>>

(***************************************************************************)
(* Generic sequence helpers (JavaScript Array / Map / Set behaviour).      *)
(***************************************************************************)
Range(s) == {s[i] : i \in 1..Len(s)}

\* Array.prototype.reverse
Reverse(s) == [i \in 1..Len(s) |-> s[Len(s) + 1 - i]]

\* Insertion into a JavaScript Set / Map key list: first insertion fixes the
\* position, later insertions of the same key do not move it.
SetAdd(s, x) == IF x \in Range(s) THEN s ELSE Append(s, x)

RECURSIVE SetAddAll(_, _)
SetAddAll(s, xs) ==
  IF xs = <<>> THEN s ELSE SetAddAll(SetAdd(s, Head(xs)), Tail(xs))

RECURSIVE Concat(_)
Concat(ss) == IF ss = <<>> THEN <<>> ELSE Head(ss) \o Concat(Tail(ss))

AllSeqs(S, n) == UNION {[1..k -> S] : k \in 0..n}

(***************************************************************************)
(* JavaScript strings that the code inspects character by character are    *)
(* sequences of one-character strings; strings that are only built and     *)
(* compared are TLA+ strings.                                              *)
(***************************************************************************)
LowerCaseLetters == <<"a", "b", "c", "d", "e", "f", "g", "h", "i", "j", "k", "l", "m", "n", "o", "p", "q", "r", "s", "t", "u", "v", "w", "x", "y", "z">>
UpperCaseLetters == <<"A", "B", "C", "D", "E", "F", "G", "H", "I", "J", "K", "L", "M", "N", "O", "P", "Q", "R", "S", "T", "U", "V", "W", "X", "Y", "Z">>
Digits == <<"0", "1", "2", "3", "4", "5", "6", "7", "8", "9">>

\* the regular-expression classes \d, [a-z] under the i flag, and \s
DigitChars == Range(Digits)
LetterChars == Range(LowerCaseLetters) \cup Range(UpperCaseLetters)
SpaceChars == {" ", "\n", "\t", "\r"}

IndexIn(s, c) == CHOOSE k \in 1..Len(s) : s[k] = c

\* the lower-case form of every character that has one
LowerCaseOf ==
  [c \in Range(UpperCaseLetters) |-> LowerCaseLetters[IndexIn(UpperCaseLetters, c)]]

\* String.prototype.toLowerCase
ToLowerCase(s) ==
  [k \in 1..Len(s) |-> IF s[k] \in DOMAIN LowerCaseOf THEN LowerCaseOf[s[k]] ELSE s[k]]

\* s.substring(i - 1, j - 1): characters i .. j-1 (1-based)
Slice(s, i, j) == [k \in 1..(j - i) |-> s[i + k - 1]]

\* whether p occurs in s at (1-based) position i
MatchesAt(s, p, i) ==
  /\ i >= 1
  /\ i + Len(p) - 1 <= Len(s)
  /\ \A k \in 1..Len(p) : s[i + k - 1] = p[k]

\* String.prototype.includes
Includes(s, p) == \E i \in 1..(Len(s) + 1) : MatchesAt(s, p, i)

\* String.prototype.trim
Trim(s) ==
  LET keep == {k \in 1..Len(s) : s[k] \notin SpaceChars}
  IN IF keep = {} THEN <<>>
     ELSE LET lo == CHOOSE k \in keep : \A m \in keep : k <= m
              hi == CHOOSE k \in keep : \A m \in keep : k >= m
          IN Slice(s, lo, hi + 1)

\* the TLA+ string spelled by a character sequence
RECURSIVE Str(_)
Str(s) == IF s = <<>> THEN "" ELSE Head(s) \o Str(Tail(s))

\* parseInt of a non-empty digit string
RECURSIVE ParseInt(_)
ParseInt(s) ==
  IF s = <<>> THEN 0
  ELSE 10 * ParseInt(SubSeq(s, 1, Len(s) - 1)) + (IndexIn(Digits, s[Len(s)]) - 1)

\* first position >= i of s (up to Len(s) + 1) whose character is not in
\* class: the end of a greedy run class* started at i
RunEnd(s, i, class) ==
  CHOOSE j \in i..(Len(s) + 1) :
    /\ \A k \in i..(j - 1) : s[k] \in class
    /\ j = Len(s) + 1 \/ s[j] \notin class

\* JavaScript undefined, as a value unequal to every task and graph record
Undefined == [undefined |-> TRUE]

\* an object without own properties; also what spreading undefined adds
EmptyObject == [f \in {} |-> f]

\* obj?.field || default, for a field holding a TLA+ string ("" is falsy),
\* a character sequence (the empty one is falsy) or a number (0 is falsy)
StrOr(obj, field, default) ==
  IF field \in DOMAIN obj /\ obj[field] # "" THEN obj[field] ELSE default
CharsOr(obj, field, default) ==
  IF field \in DOMAIN obj /\ obj[field] # <<>> THEN obj[field] ELSE default
NumOr(obj, field, default) ==
  IF field \in DOMAIN obj /\ obj[field] # 0 THEN obj[field] ELSE default

\* `${v}` for a string-valued property that may be absent
Interpolate(obj, field) ==
  IF field \in DOMAIN obj THEN obj[field] ELSE <<"u", "n", "d", "e", "f", "i", "n", "e", "d">>

\* the decimal digits of a natural number, as `${n}` prints it
RECURSIVE NumChars(_)
NumChars(n) ==
  IF n < 10 THEN <<Digits[n + 1]>>
  ELSE NumChars(n \div 10) \o <<Digits[(n % 10) + 1]>>

\* {...a, ...b}: b's own properties override a's
Spread(a, b) ==
  [f \in DOMAIN a \cup DOMAIN b |-> IF f \in DOMAIN b THEN b[f] ELSE a[f]]


(***************************************************************************)
(* TaskDecomposer.buildExecutionPlan                                       *)
(***************************************************************************)
MaxTasks == 2     \* longest task list handed to buildExecutionPlan
MaxDeps == 1      \* longest metadata.dependencies array of one task

\* `task-${n}`
TaskIdOf(n) == "task-" \o ToString(n)

\* Ids that tasks of the plan may carry, and one id no task ever carries.
PlanIds == {TaskIdOf(n) : n \in 1..MaxTasks}
DanglingId == "task-missing"
DepIds == PlanIds \cup {DanglingId}

TaskRecords == [taskId : PlanIds, dependencies : AllSeqs(DepIds, MaxDeps)]
NoError == "none"

\* taskMap.has(id), with taskMap built by the forEach of lines 124-127
TaskMapHasAny(ts, id) == TRUE
TaskMapHas(ts, id) == \E i \in 1..Len(ts) : ts[i].taskId = id

\* taskMap.get(id): the last task stored under the id, undefined when absent
TaskMapGet(ts, id) ==
  IF \E i \in 1..Len(ts) : ts[i].taskId = id
  THEN ts[CHOOSE i \in 1..Len(ts) :
            /\ ts[i].taskId = id
            /\ \A j \in (i + 1)..Len(ts) : ts[j].taskId # id]
  ELSE Undefined

\* taskMap.keys(): ids in order of first insertion
TaskMapKeys(ts) == SetAddAll(<<>>, [i \in 1..Len(ts) |-> ts[i].taskId])

\* The dependencies one task contributes to dependencyGraph (lines 144-149)
InPlanDeps(ts, task) ==
  SelectSeq(task.dependencies, LAMBDA depId : TaskMapHas(ts, depId))

\* dependencyGraph.get(taskId) || new Set(): the Set filled by lines 134-150,
\* in insertion order; empty for an id that has no entry
DependencyGraphGet(ts, taskId) ==
  SetAddAll(<<>>,
    Concat([i \in 1..Len(ts) |->
      IF ts[i].taskId = taskId THEN InPlanDeps(ts, ts[i]) ELSE <<>>]))

\* State of the topological sort: visited, temp, executionOrder and the task
\* id of the Error thrown by visit (NoError while nothing was thrown).
SortInit == [visited |-> {}, temp |-> {}, executionOrder |-> <<>>, thrown |-> NoError]

\* lines 172-177 without temp.delete
LeaveTaskKeepTemp(ts, st, taskId) ==
  IF st.thrown # NoError THEN st
  ELSE [st EXCEPT !.visited = @ \cup {taskId},
                  !.executionOrder =
                     IF TaskMapHas(ts, taskId)
                     THEN Append(@, TaskMapGet(ts, taskId)) ELSE @]

\* lines 172-177: temp.delete, visited.add, executionOrder.push
LeaveTask(ts, st, taskId) ==
  IF st.thrown # NoError THEN st
  ELSE [st EXCEPT !.temp = @ \ {taskId},
                  !.visited = @ \cup {taskId},
                  !.executionOrder =
                     IF TaskMapHas(ts, taskId)
                     THEN Append(@, TaskMapGet(ts, taskId)) ELSE @]

RECURSIVE visit(_, _, _), visitDeps(_, _, _)

\* the for-of loop of lines 168-170; a throw of visit ends the loop
visitDeps(ts, st, deps) ==
  IF deps = <<>> \/ st.thrown # NoError THEN st
  ELSE visitDeps(ts, visit(ts, st, Head(deps)), Tail(deps))

\* the closure visit of lines 157-178
visit(ts, st, taskId) ==
  IF st.thrown # NoError THEN st
  ELSE IF taskId \in st.temp THEN [st EXCEPT !.thrown = taskId]
  ELSE IF taskId \in st.visited THEN st
  ELSE LeaveTask(ts,
         visitDeps(ts, [st EXCEPT !.temp = @ \cup {taskId}],
                   DependencyGraphGet(ts, taskId)),
         taskId)

\* the for-of loop of lines 181-185
RECURSIVE visitAll(_, _, _)
visitAll(ts, st, keys) ==
  IF keys = <<>> \/ st.thrown # NoError THEN st
  ELSE visitAll(ts,
         IF Head(keys) \in st.visited THEN st ELSE visit(ts, st, Head(keys)),
         Tail(keys))

\* buildExecutionPlan(tasks): the returned array, or the thrown cycle error
buildExecutionPlan(ts) ==
  LET st == visitAll(ts, SortInit, TaskMapKeys(ts))
  IN IF st.thrown # NoError
     THEN [status |-> "error", taskId |-> st.thrown]
     ELSE [status |-> "ok", order |-> Reverse(st.executionOrder)]

NoPlan == [status |-> "none"]

\* parseDecomposition is not in use
ParseIdle == content = EmptyObject /\ parsed = <<>>

\* no KnowledgeGraphService is in use
NoGraph == [nodes |-> <<>>, edges |-> <<>>]
NoQuery == [status |-> "none"]
GraphIdle ==
  graph = NoGraph /\ scans = <<>> /\ query = NoQuery /\ context = NoQuery

\* no ContextCompressor is in use
NoRequest == [op |-> "none"]
CompressIdle == request = NoRequest /\ response = NoRequest

\* no Orchestrator is in use
NoRun == [status |-> "none"]
OrchestratorIdle == run = NoRun

InitPlan ==
  /\ pc = "input"
  /\ tasks \in AllSeqs(TaskRecords, MaxTasks)
  /\ plan = NoPlan
  /\ ParseIdle
  /\ GraphIdle
  /\ CompressIdle
  /\ OrchestratorIdle

BuildExecutionPlan ==
  /\ pc = "input"
  /\ plan' = buildExecutionPlan(tasks)
  /\ pc' = "done"
  /\ UNCHANGED <<tasks, content, parsed, graph, scans, query, context, request, response, run>>

NextPlan == BuildExecutionPlan

SpecPlan == InitPlan /\ [][NextPlan]_vars

(***************************************************************************)
(* Properties of buildExecutionPlan                                        *)
(***************************************************************************)
TaskIdsOf(ts) == {ts[i].taskId : i \in 1..Len(ts)}

UniqueIds(ts) == \A i, j \in 1..Len(ts) : ts[i].taskId = ts[j].taskId => i = j

\* The in-plan dependency relation: T -> D when a task with id T lists D and
\* some task of the list has id D.
InPlanRel(ts) ==
  {e \in TaskIdsOf(ts) \X TaskIdsOf(ts) :
     \E i \in 1..Len(ts) :
        ts[i].taskId = e[1] /\ e[2] \in Range(ts[i].dependencies)}

\* Ids reachable from id in n or fewer steps of the relation, n >= 1
RECURSIVE ReachWithin(_, _, _)
ReachWithin(rel, id, n) ==
  LET step == {e[2] : e \in {f \in rel : f[1] = id}}
  IN IF n <= 1 THEN step
     ELSE step \cup UNION {ReachWithin(rel, d, n - 1) : d \in step}

OnCycle(ts, id) ==
  id \in TaskIdsOf(ts) /\ id \in ReachWithin(InPlanRel(ts), id, Cardinality(TaskIdsOf(ts)))

HasCycle(ts) == \E id \in TaskIdsOf(ts) : OnCycle(ts, id)

HasDangling(ts) ==
  \E i \in 1..Len(ts) : \E d \in Range(ts[i].dependencies) : d \notin TaskIdsOf(ts)

\* The task list with every reference to an absent id removed
StripDangling(ts) ==
  [i \in 1..Len(ts) |->
     [ts[i] EXCEPT !.dependencies =
        SelectSeq(@, LAMBDA d : d \in TaskIdsOf(ts))]]

IsPermutationOf(order, ts) ==
  /\ Len(order) = Len(ts)
  /\ \A i \in 1..Len(ts) :
        Cardinality({k \in 1..Len(order) : order[k] = ts[i]}) = 1

DependenciesFirst(order, ts) ==
  \A k \in 1..Len(order) :
    \A d \in Range(order[k].dependencies) :
      (\E m \in 1..Len(order) : order[m].taskId = d) =>
         \E m \in 1..(k - 1) : order[m].taskId = d

OrderIds(order) == [k \in 1..Len(order) |-> order[k].taskId]

\* C1: for a task list with unique ids and an acyclic in-plan dependency
\* relation, buildExecutionPlan returns a permutation of the input in which
\* every in-plan dependency of a task stands strictly before the task; for
\* task-2 depending on task-1 the order is [task-1, task-2].
C1_PlanRespectsDependencies ==
  (pc = "done" /\ UniqueIds(tasks) /\ ~HasCycle(tasks)) =>
     /\ plan.status = "ok"
     /\ IsPermutationOf(plan.order, tasks)
     /\ DependenciesFirst(plan.order, tasks)

\* C2: buildExecutionPlan throws the cycle error exactly when the in-plan
\* dependency relation has a cycle; a throw carries no ordering, and the id
\* it names lies on a cycle.
C2_CycleErrorIffCycle ==
  pc = "done" =>
     /\ HasCycle(tasks) <=> plan.status = "error"
     /\ plan.status = "error" =>
          /\ "order" \notin DOMAIN plan
          /\ OnCycle(tasks, plan.taskId)
     /\ plan.status \in {"ok", "error"}

C2_Witness ==
  /\ pc = "done"
  /\ plan.status = "error"
  /\ \E a, b \in TaskIdsOf(tasks) :
        a # b /\ <<a, b>> \in InPlanRel(tasks) /\ <<b, a>> \in InPlanRel(tasks)

\* C3: a reference to an id absent from the plan changes nothing: the
\* outcome is the one for the same list without the dangling references, and
\* every element returned is a task of the input.
C3_DanglingIgnored ==
  pc = "done" =>
     LET clean == buildExecutionPlan(StripDangling(tasks))
     IN /\ plan.status = clean.status
        /\ plan.status = "ok" =>
             /\ \A k \in 1..Len(plan.order) : plan.order[k] \in Range(tasks)
             /\ OrderIds(plan.order) = OrderIds(clean.order)
        /\ plan.status = "error" => plan.taskId = clean.taskId

C3_Witness ==
  /\ pc = "done"
  /\ HasDangling(tasks)
  /\ plan.status = "ok"
  /\ Len(plan.order) >= 2

(***************************************************************************)
(* TaskDecomposer.parseDecomposition                                       *)
(***************************************************************************)
MaxElements == 2   \* longest JSON array handed to parseDecomposition
MaxBlocks == 2     \* most matches of taskPattern in one free text

\* the character class [a-z-_] under the i flag
IdChars == LetterChars \cup {"-", "_"}

\* the exec loop of parseDependencies over depPattern
\* /(?:Task\s*)?(\d+)|([a-z-_]+)/gi, from (1-based) position i
RECURSIVE parseDependenciesFrom(_, _, _)
parseDependenciesFrom(s, i, deps) ==
  IF i > Len(s) THEN deps
  ELSE LET prefixed == MatchesAt(ToLowerCase(s), <<"t", "a", "s", "k">>, i)
           numStart == IF prefixed THEN RunEnd(s, i + 4, SpaceChars) ELSE i
           numEnd == RunEnd(s, numStart, DigitChars)
           idEnd == RunEnd(s, i, IdChars)
       IN IF numEnd > numStart
          THEN parseDependenciesFrom(s, numEnd,
                 Append(deps, "task-" \o Str(Slice(s, numStart, numEnd))))
          ELSE IF idEnd > i
          THEN parseDependenciesFrom(s, idEnd, Append(deps, Str(Slice(s, i, idEnd))))
          ELSE parseDependenciesFrom(s, i + 1, deps)

parseDependencies(depString) == parseDependenciesFrom(depString, 1, <<>>)

\* inferWorkerType on the already interpolated `${taskName} ${description}`
inferWorkerType(taskName, description) ==
  LET normalizedText == ToLowerCase(taskName \o <<" ">> \o description)
      has(w) == Includes(normalizedText, w)
  IN IF has(<<"s", "c", "a", "n">>) \/ has(<<"p", "r", "o", "j", "e", "c", "t">>) THEN "project-scan"
     ELSE IF has(<<"a", "n", "a", "l", "y", "z", "e">>) \/ has(<<"s", "t", "a", "t", "i", "c">>) THEN "static-analysis"
     ELSE IF has(<<"d", "e", "p", "e", "n", "d">>) \/ has(<<"p", "a", "c", "k", "a", "g", "e">>) THEN "dependency-check"
     ELSE IF has(<<"i", "n", "n", "o", "v", "a", "t">>) \/ has(<<"s", "u", "g", "g", "e", "s", "t">>) THEN "innovation-suggestion"
     ELSE IF has(<<"k", "n", "o", "w", "l", "e", "d", "g", "e">>) \/ has(<<"g", "r", "a", "p", "h">>) THEN "knowledge"
     ELSE "local-data"

ExecuteTaskPrefix == <<"E", "x", "e", "c", "u", "t", "e", " ", "t", "a", "s", "k", ":", " ">>
TaskNamePrefix == <<"T", "a", "s", "k", " ">>

\* task.metadata, an object without properties when the element has none
MetadataOf(task) ==
  IF "metadata" \in DOMAIN task THEN task.metadata ELSE EmptyObject

\* the callback of tasks.map in validateAndEnrichTasks; index is 1-based here
\* (index + 1 of the code)
EnrichTask(task, index) ==
  LET md == MetadataOf(task)
      taskId == StrOr(md, "taskId", TaskIdOf(index))
      taskName == CharsOr(md, "taskName", TaskNamePrefix \o NumChars(index))
      taskType == StrOr(md, "taskType",
                        inferWorkerType(taskName, Interpolate(task, "content")))
  IN [content |-> CharsOr(task, "content", ExecuteTaskPrefix \o taskName),
      metadata |->
        Spread([taskId |-> taskId,
                taskName |-> taskName,
                taskType |-> taskType,
                priority |-> NumOr(md, "priority", 1),
                dependencies |-> IF "dependencies" \in DOMAIN md
                                 THEN md.dependencies ELSE <<>>,
                status |-> "pending",
                retries |-> 0],
               md)]

validateAndEnrichTasks(ts) == [i \in 1..Len(ts) |-> EnrichTask(ts[i], i)]

\* the body of the while loop of parseDecomposition for one match of
\* taskPattern; match holds the groups that took part: number (1), name (2),
\* description (3), dependencies (4), priority (5), worker (6)
TaskOfMatch(match) ==
  LET taskNumber == ParseInt(match.number)
      taskName == Trim(match.name)
      description == IF "description" \in DOMAIN match
                     THEN Trim(match.description) ELSE <<>>
      dependencies == IF "dependencies" \in DOMAIN match /\ match.dependencies # <<>>
                      THEN parseDependencies(match.dependencies) ELSE <<>>
      priority == IF "priority" \in DOMAIN match /\ match.priority # <<>>
                  THEN ParseInt(match.priority) ELSE 1
      worker == IF "worker" \in DOMAIN match /\ Trim(match.worker) # <<>>
                THEN Str(Trim(match.worker))
                ELSE inferWorkerType(taskName, description)
  IN [content |-> ExecuteTaskPrefix \o taskName \o <<"\n">> \o description,
      metadata |-> [taskId |-> TaskIdOf(taskNumber),
                    taskName |-> taskName,
                    taskType |-> worker,
                    priority |-> priority,
                    dependencies |-> dependencies,
                    status |-> "pending",
                    retries |-> 0]]

\* parseDecomposition(content). content.kind = "json": JSON.parse returns the
\* array content.value; content.kind = "text": JSON.parse throws or returns
\* no array, and content.matches are the successive matches of taskPattern.
parseDecomposition(c) ==
  IF c.kind = "json"
  THEN validateAndEnrichTasks(c.value)
  ELSE validateAndEnrichTasks([i \in 1..Len(c.matches) |-> TaskOfMatch(c.matches[i])])

Restrict(f, D) == [x \in D |-> f[x]]

\* metadata objects of JSON elements: any subset of taskId, status, retries
JsonMetadatas ==
  {Restrict(m, D) :
     m \in [taskId : {"task-1", "task-2", "setup"},
            status : {"completed", "failed"},
            retries : {0, 3}],
     D \in SUBSET {"taskId", "status", "retries"}}

JsonElements ==
  {[metadata |-> m] : m \in JsonMetadatas} \cup
  {[content |-> <<"S", "c", "a", "n", " ", "r", "e", "p", "o">>], EmptyObject}

\* matches of taskPattern: number and name always take part
TextMatches ==
  {Restrict(m, {"number", "name"} \cup D) :
     m \in [number : {<<"1">>, <<"2">>},
            name : {<<"A">>, <<"C", "h", "e", "c", "k", " ", "p", "a", "c", "k", "a", "g", "e", "s", " ">>},
            dependencies : {<<"1">>, <<"T", "a", "s", "k", " ", "2", ",", " ", "s", "e", "t", "u", "p", "_", "d", "b">>, <<"t", "a", "s", "k", "-", "3", " ", "a", "n", "d", " ", "4">>},
            priority : {<<"3">>},
            worker : {<<" ", "s", "t", "a", "t", "i", "c", "-", "a", "n", "a", "l", "y", "s", "i", "s">>}],
     D \in SUBSET {"dependencies", "priority", "worker"}}

PlanIdle == tasks = <<>> /\ plan = NoPlan

InitParse ==
  /\ pc = "input"
  /\ content \in
       {[kind |-> "json", value |-> v] : v \in AllSeqs(JsonElements, MaxElements)} \cup
       {[kind |-> "text", matches |-> ms] : ms \in AllSeqs(TextMatches, MaxBlocks)}
  /\ parsed = <<>>
  /\ PlanIdle
  /\ GraphIdle
  /\ CompressIdle
  /\ OrchestratorIdle

ParseDecomposition ==
  /\ pc = "input"
  /\ parsed' = parseDecomposition(content)
  /\ pc' = "done"
  /\ UNCHANGED <<content, tasks, plan, graph, scans, query, context, request, response, run>>

NextParse == ParseDecomposition

SpecParse == InitParse /\ [][NextParse]_vars

\* C4: every task record parseDecomposition returns has status pending and
\* retries 0, whatever status or retries the input element carried.
C4_StatusAndRetriesReset ==
  pc = "done" =>
     \A i \in 1..Len(parsed) :
        parsed[i].metadata.status = "pending" /\ parsed[i].metadata.retries = 0

\* C10: no two task records of one result of parseDecomposition share a
\* taskId.
C10_TaskIdsDistinct ==
  pc = "done" =>
     \A i, j \in 1..Len(parsed) :
        parsed[i].metadata.taskId = parsed[j].metadata.taskId => i = j

(***************************************************************************)
(* Graph store (utils/graph): a directed labelled multigraph.  nodes keeps *)
(* insertion order; an id occurs once.                                     *)
(***************************************************************************)
\* Graph.addNode: upsert by id; a node inserted under an existing id
\* replaces the stored one in place
GraphAddNode(g, node) ==
  IF \E i \in 1..Len(g.nodes) : g.nodes[i].id = node.id
  THEN [g EXCEPT !.nodes =
          [i \in 1..Len(g.nodes) |->
             IF g.nodes[i].id = node.id THEN node ELSE g.nodes[i]]]
  ELSE [g EXCEPT !.nodes = Append(@, node)]

\* Graph.addEdge: edges are never merged
GraphAddEdge(g, edge) == [g EXCEPT !.edges = Append(@, edge)]

\* Graph.getAllNodes
GraphGetAllNodes(g) == g.nodes

\* Graph.getEdgesFrom
GraphGetEdgesFrom(g, id) == SelectSeq(g.edges, LAMBDA e : e.from = id)

\* A method of the service is the sequence of calls it makes on this.graph;
\* GraphApply performs them in order.
AddNodeCall(node) == [call |-> "addNode", node |-> node]
AddEdgeCall(edge) == [call |-> "addEdge", edge |-> edge]

RECURSIVE GraphApply(_, _)
GraphApply(g, calls) ==
  IF calls = <<>> THEN g
  ELSE GraphApply(IF Head(calls).call = "addNode"
                  THEN GraphAddNode(g, Head(calls).node)
                  ELSE GraphAddEdge(g, Head(calls).edge),
                  Tail(calls))

(***************************************************************************)
(* Objects whose JSON text the service searches are sequences of           *)
(* properties [k, v] in insertion order; a value v is [s |-> characters],  *)
(* [n |-> number], [b |-> boolean], [a |-> values] or Undefined.           *)
(***************************************************************************)
K_id == <<"i", "d">>
K_name == <<"n", "a", "m", "e">>
K_type == <<"t", "y", "p", "e">>

\* the object literal { keys[1]: values[1], ... }
Object(keys, values) == [i \in 1..Len(keys) |-> [k |-> keys[i], v |-> values[i]]]

\* obj.key, undefined when the property is absent
Prop(obj, key) ==
  IF \E i \in 1..Len(obj) : obj[i].k = key
  THEN obj[CHOOSE i \in 1..Len(obj) : obj[i].k = key].v
  ELSE Undefined

\* a property of a scan record as a value of a node's data
StrValue(rec, field) == IF field \in DOMAIN rec THEN [s |-> rec[field]] ELSE Undefined
NumValue(rec, field) == IF field \in DOMAIN rec THEN [n |-> rec[field]] ELSE Undefined

(***************************************************************************)
(* KnowledgeGraphService: construction and buildProjectGraph               *)
(***************************************************************************)
MaxIngest == 2     \* most buildProjectGraph calls on one service
WideCount == 21    \* direct dependencies of the widest scan

\* the frameworks array of addCommonFrameworkRelationships
Frameworks ==
  <<Object(<<K_id, K_name, K_type, <<"e", "c", "o", "s", "y", "s", "t", "e", "m">>>>,
           <<[s |-> <<"f", "r", "a", "m", "e", "w", "o", "r", "k", ":", "r", "e", "a", "c", "t">>], [s |-> <<"R", "e", "a", "c", "t">>], [s |-> <<"u", "i">>], [s |-> <<"j", "a", "v", "a", "s", "c", "r", "i", "p", "t">>]>>),
    Object(<<K_id, K_name, K_type, <<"e", "c", "o", "s", "y", "s", "t", "e", "m">>>>,
           <<[s |-> <<"f", "r", "a", "m", "e", "w", "o", "r", "k", ":", "a", "n", "g", "u", "l", "a", "r">>], [s |-> <<"A", "n", "g", "u", "l", "a", "r">>], [s |-> <<"u", "i">>], [s |-> <<"j", "a", "v", "a", "s", "c", "r", "i", "p", "t">>]>>),
    Object(<<K_id, K_name, K_type, <<"e", "c", "o", "s", "y", "s", "t", "e", "m">>>>,
           <<[s |-> <<"f", "r", "a", "m", "e", "w", "o", "r", "k", ":", "v", "u", "e">>], [s |-> <<"V", "u", "e">>], [s |-> <<"u", "i">>], [s |-> <<"j", "a", "v", "a", "s", "c", "r", "i", "p", "t">>]>>),
    Object(<<K_id, K_name, K_type, <<"e", "c", "o", "s", "y", "s", "t", "e", "m">>>>,
           <<[s |-> <<"f", "r", "a", "m", "e", "w", "o", "r", "k", ":", "d", "j", "a", "n", "g", "o">>], [s |-> <<"D", "j", "a", "n", "g", "o">>], [s |-> <<"b", "a", "c", "k", "e", "n", "d">>], [s |-> <<"p", "y", "t", "h", "o", "n">>]>>),
    Object(<<K_id, K_name, K_type, <<"e", "c", "o", "s", "y", "s", "t", "e", "m">>>>,
           <<[s |-> <<"f", "r", "a", "m", "e", "w", "o", "r", "k", ":", "f", "l", "a", "s", "k">>], [s |-> <<"F", "l", "a", "s", "k">>], [s |-> <<"b", "a", "c", "k", "e", "n", "d">>], [s |-> <<"p", "y", "t", "h", "o", "n">>]>>),
    Object(<<K_id, K_name, K_type, <<"e", "c", "o", "s", "y", "s", "t", "e", "m">>>>,
           <<[s |-> <<"f", "r", "a", "m", "e", "w", "o", "r", "k", ":", "e", "x", "p", "r", "e", "s", "s">>], [s |-> <<"E", "x", "p", "r", "e", "s", "s">>], [s |-> <<"b", "a", "c", "k", "e", "n", "d">>], [s |-> <<"j", "a", "v", "a", "s", "c", "r", "i", "p", "t">>]>>),
    Object(<<K_id, K_name, K_type, <<"e", "c", "o", "s", "y", "s", "t", "e", "m">>>>,
           <<[s |-> <<"f", "r", "a", "m", "e", "w", "o", "r", "k", ":", "s", "p", "r", "i", "n", "g">>], [s |-> <<"S", "p", "r", "i", "n", "g">>], [s |-> <<"b", "a", "c", "k", "e", "n", "d">>], [s |-> <<"j", "a", "v", "a">>]>>)>>

\* the errorPatterns array of addCommonErrorPatterns
ErrorPatterns ==
  <<Object(<<K_id, <<"m", "e", "s", "s", "a", "g", "e">>, <<"s", "o", "l", "u", "t", "i", "o", "n", "s">>>>,
           <<[s |-> <<"e", "r", "r", "o", "r", ":", "j", "a", "v", "a", "s", "c", "r", "i", "p", "t", ":", "u", "n", "d", "e", "f", "i", "n", "e", "d">>], [s |-> <<"C", "a", "n", "n", "o", "t", " ", "r", "e", "a", "d", " ", "p", "r", "o", "p", "e", "r", "t", "y", " ", "o", "f", " ", "u", "n", "d", "e", "f", "i", "n", "e", "d">>],
             [a |-> <<[s |-> <<"C", "h", "e", "c", "k", " ", "i", "f", " ", "o", "b", "j", "e", "c", "t", " ", "e", "x", "i", "s", "t", "s", " ", "b", "e", "f", "o", "r", "e", " ", "a", "c", "c", "e", "s", "s", "i", "n", "g", " ", "p", "r", "o", "p", "e", "r", "t", "i", "e", "s">>],
                      [s |-> <<"U", "s", "e", " ", "o", "p", "t", "i", "o", "n", "a", "l", " ", "c", "h", "a", "i", "n", "i", "n", "g">>]>>]>>),
    Object(<<K_id, <<"m", "e", "s", "s", "a", "g", "e">>, <<"s", "o", "l", "u", "t", "i", "o", "n", "s">>>>,
           <<[s |-> <<"e", "r", "r", "o", "r", ":", "p", "y", "t", "h", "o", "n", ":", "i", "n", "d", "e", "n", "t", "a", "t", "i", "o", "n">>], [s |-> <<"I", "n", "d", "e", "n", "t", "a", "t", "i", "o", "n", "E", "r", "r", "o", "r">>],
             [a |-> <<[s |-> <<"C", "h", "e", "c", "k", " ", "s", "p", "a", "c", "e", "s", " ", "v", "s", " ", "t", "a", "b", "s">>],
                      [s |-> <<"E", "n", "s", "u", "r", "e", " ", "c", "o", "n", "s", "i", "s", "t", "e", "n", "t", " ", "i", "n", "d", "e", "n", "t", "a", "t", "i", "o", "n">>]>>]>>)>>

Edge(from, to, type) == [from |-> from, to |-> to, type |-> type, data |-> Undefined]

addCommonFrameworkRelationships ==
  [i \in 1..Len(Frameworks) |->
     AddNodeCall([id |-> Str(Prop(Frameworks[i], K_id).s),
                  type |-> "framework",
                  data |-> Frameworks[i]])]
  \o <<AddEdgeCall(Edge("framework:react", "dependency:react-router", "ecosystem")),
       AddEdgeCall(Edge("framework:react", "dependency:redux", "ecosystem"))>>

addCommonErrorPatterns ==
  [i \in 1..Len(ErrorPatterns) |->
     AddNodeCall([id |-> Str(Prop(ErrorPatterns[i], K_id).s),
                  type |-> "errorPattern",
                  data |-> ErrorPatterns[i]])]

\* initializeGraph, on the empty Graph of the constructor
initializeGraph ==
  GraphApply(NoGraph, addCommonFrameworkRelationships \o addCommonErrorPatterns)

FileId(path) == "file:" \o Str(path)
DependencyId(name) == "dependency:" \o Str(name)
EntityId(e) ==
  "entity:" \o Str(e.type) \o ":" \o Str(e.name) \o ":" \o Str(e.file)
            \o ":" \o ToString(e.position)

addFilesToGraph(files) ==
  [i \in 1..Len(files) |->
     AddNodeCall([id |-> FileId(files[i].path),
                  type |-> "file",
                  data |-> Object(<<<<"p", "a", "t", "h">>, <<"l", "a", "n", "g", "u", "a", "g", "e">>, <<"s", "i", "z", "e">>, <<"l", "a", "s", "t", "M", "o", "d", "i", "f", "i", "e", "d">>>>,
                                  <<StrValue(files[i], "path"),
                                    StrValue(files[i], "language"),
                                    NumValue(files[i], "size"),
                                    StrValue(files[i], "lastModified")>>)])]

DependencyNode(entry, isDirect) ==
  [id |-> DependencyId(entry.name),
   type |-> "dependency",
   data |-> Object(<<K_name, <<"v", "e", "r", "s", "i", "o", "n">>, <<"i", "s", "D", "i", "r", "e", "c", "t">>>>,
                   <<[s |-> entry.name], [s |-> entry.version], [b |-> isDirect]>>)]

\* processDependencyTree(tree, parent); tree is the sequence of entries
\* [name, subtree] of Object.entries, a subtree being [entries |-> tree] when
\* it is an object and Undefined otherwise; hasParent tells whether parent
\* was passed and is truthy
RECURSIVE processDependencyTree(_, _, _)
processDependencyTree(tree, hasParent, parent) ==
  Concat([i \in 1..Len(tree) |->
     (IF hasParent
      THEN <<AddEdgeCall(Edge(DependencyId(parent), DependencyId(tree[i].name), "requires"))>>
      ELSE <<>>)
     \o (IF tree[i].subtree # Undefined
         THEN processDependencyTree(tree[i].subtree.entries, tree[i].name # <<>>, tree[i].name)
         ELSE <<>>)])

addDependenciesToGraph(dependencies) ==
  [i \in 1..Len(dependencies.direct) |->
     AddNodeCall(DependencyNode(dependencies.direct[i], TRUE))]
  \o (IF "transitive" \in DOMAIN dependencies
      THEN [i \in 1..Len(dependencies.transitive) |->
              AddNodeCall(DependencyNode(dependencies.transitive[i], FALSE))]
      ELSE <<>>)
  \o (IF "dependencyTree" \in DOMAIN dependencies
      THEN processDependencyTree(dependencies.dependencyTree, FALSE, <<>>)
      ELSE <<>>)

\* the callback of addCodeEntitiesToGraph without the contains edge
EntityCallsNoEdge(entity) ==
  <<AddNodeCall([id |-> EntityId(entity),
                 type |-> "codeEntity",
                 data |-> Object(<<K_name, K_type, <<"f", "i", "l", "e">>, <<"p", "o", "s", "i", "t", "i", "o", "n">>,
                                   <<"c", "o", "m", "p", "l", "e", "x", "i", "t", "y">>, <<"l", "i", "n", "e", "s">>>>,
                                 <<StrValue(entity, "name"), StrValue(entity, "type"),
                                   StrValue(entity, "file"), NumValue(entity, "position"),
                                   NumValue(entity, "complexity"),
                                   NumValue(entity, "lines")>>)])>>

\* the callback of addCodeEntitiesToGraph: the node, then its contains edge
EntityCalls(entity) ==
  <<AddNodeCall([id |-> EntityId(entity),
                 type |-> "codeEntity",
                 data |-> Object(<<K_name, K_type, <<"f", "i", "l", "e">>, <<"p", "o", "s", "i", "t", "i", "o", "n">>,
                                   <<"c", "o", "m", "p", "l", "e", "x", "i", "t", "y">>, <<"l", "i", "n", "e", "s">>>>,
                                 <<StrValue(entity, "name"), StrValue(entity, "type"),
                                   StrValue(entity, "file"), NumValue(entity, "position"),
                                   NumValue(entity, "complexity"),
                                   NumValue(entity, "lines")>>)]),
    AddEdgeCall(Edge(FileId(entity.file), EntityId(entity), "contains"))>>

addCodeEntitiesToGraph(entities) ==
  Concat([i \in 1..Len(entities) |-> EntityCalls(entities[i])])

\* codeEntities?.find(e => e.file === file && e.name === name)
FindEntity(entities, file, name) ==
  IF \E i \in 1..Len(entities) : entities[i].file = file /\ entities[i].name = name
  THEN entities[CHOOSE i \in 1..Len(entities) :
                  /\ entities[i].file = file /\ entities[i].name = name
                  /\ \A j \in 1..(i - 1) :
                        ~(entities[j].file = file /\ entities[j].name = name)]
  ELSE Undefined

\* the callback of projectScan.functionCalls.forEach
CallCalls(entities, call) ==
  LET callerEntity == FindEntity(entities, call.sourceFile, call.sourceFunction)
      calleeEntity == FindEntity(entities, call.targetFile, call.targetFunction)
  IN IF callerEntity # Undefined /\ calleeEntity # Undefined
     THEN <<AddEdgeCall([from |-> EntityId(callerEntity),
                         to |-> EntityId(calleeEntity),
                         type |-> "calls",
                         data |-> [count |-> NumOr(call, "count", 1)]])>>
     ELSE <<>>

extractCodeRelationships(projectScan) ==
  IF "codeEntities" \notin DOMAIN projectScan THEN <<>>
  ELSE (IF "imports" \in DOMAIN projectScan
        THEN [i \in 1..Len(projectScan.imports) |->
                AddEdgeCall(Edge(FileId(projectScan.imports[i].sourceFile),
                                 FileId(projectScan.imports[i].targetFile),
                                 "imports"))]
        ELSE <<>>)
       \o (IF "functionCalls" \in DOMAIN projectScan
           THEN Concat([i \in 1..Len(projectScan.functionCalls) |->
                          CallCalls(projectScan.codeEntities,
                                    projectScan.functionCalls[i])])
           ELSE <<>>)

\* the calls buildProjectGraph(projectScan) makes on the graph
buildProjectGraphCalls(projectScan) ==
  addFilesToGraph(projectScan.files)
  \o addDependenciesToGraph(projectScan.dependencies)
  \o (IF "codeEntities" \in DOMAIN projectScan
      THEN addCodeEntitiesToGraph(projectScan.codeEntities) ELSE <<>>)
  \o extractCodeRelationships(projectScan)

buildProjectGraph(g, projectScan) == GraphApply(g, buildProjectGraphCalls(projectScan))

\* Project-scan results handed to buildProjectGraph
F_app == [path |-> <<"s", "r", "c", "/", "a", "p", "p", ".", "t", "s">>, language |-> <<"t", "y", "p", "e", "s", "c", "r", "i", "p", "t">>, size |-> 120]
F_app2 == [path |-> <<"s", "r", "c", "/", "a", "p", "p", ".", "t", "s">>, language |-> <<"t", "y", "p", "e", "s", "c", "r", "i", "p", "t">>, size |-> 121,
           lastModified |-> <<"t", "o", "d", "a", "y">>]
F_util == [path |-> <<"s", "r", "c", "/", "u", "t", "i", "l", ".", "t", "s">>, language |-> <<"t", "y", "p", "e", "s", "c", "r", "i", "p", "t">>, size |-> 40]
D_redux == [name |-> <<"r", "e", "d", "u", "x">>, version |-> <<"4", ".", "2", ".", "0">>]
D_redux5 == [name |-> <<"r", "e", "d", "u", "x">>, version |-> <<"5", ".", "0", ".", "0">>]
D_router == [name |-> <<"r", "e", "a", "c", "t", "-", "r", "o", "u", "t", "e", "r">>, version |-> <<"6", ".", "0", ".", "0">>]
D_lodash == [name |-> <<"l", "o", "d", "a", "s", "h">>, version |-> <<"4", ".", "1", "7", ".", "2", "1">>]
E_main == [type |-> <<"f", "u", "n", "c", "t", "i", "o", "n">>, name |-> <<"m", "a", "i", "n">>, file |-> <<"s", "r", "c", "/", "a", "p", "p", ".", "t", "s">>,
           position |-> 10, complexity |-> 3, lines |-> 20]
E_main2 == [type |-> <<"f", "u", "n", "c", "t", "i", "o", "n">>, name |-> <<"m", "a", "i", "n">>, file |-> <<"s", "r", "c", "/", "a", "p", "p", ".", "t", "s">>,
            position |-> 10, complexity |-> 7, lines |-> 30]
E_helper == [type |-> <<"f", "u", "n", "c", "t", "i", "o", "n">>, name |-> <<"h", "e", "l", "p", "e", "r">>, file |-> <<"s", "r", "c", "/", "u", "t", "i", "l", ".", "t", "s">>,
             position |-> 5, complexity |-> 1, lines |-> 8]
I_appUtil == [sourceFile |-> <<"s", "r", "c", "/", "a", "p", "p", ".", "t", "s">>, targetFile |-> <<"s", "r", "c", "/", "u", "t", "i", "l", ".", "t", "s">>]

ScanFilesOnly == [files |-> <<F_app>>, dependencies |-> [direct |-> <<>>]]

ScanDependencies ==
  [files |-> <<F_app, F_util>>,
   dependencies |->
     [direct |-> <<D_redux, D_router>>,
      transitive |-> <<D_lodash>>,
      dependencyTree |->
        <<[name |-> <<"r", "e", "d", "u", "x">>,
           subtree |-> [entries |-> <<[name |-> <<"l", "o", "d", "a", "s", "h">>,
                                       subtree |-> [entries |-> <<>>]]>>]],
          [name |-> <<"r", "e", "a", "c", "t", "-", "r", "o", "u", "t", "e", "r">>, subtree |-> Undefined]>>],
   imports |-> <<I_appUtil>>]

ScanCode ==
  [files |-> <<F_app, F_util>>,
   dependencies |->
     [direct |-> <<D_redux>>,
      dependencyTree |->
        <<[name |-> <<"r", "e", "d", "u", "x">>,
           subtree |-> [entries |-> <<[name |-> <<"l", "o", "d", "a", "s", "h">>, subtree |-> Undefined]>>]]>>],
   codeEntities |-> <<E_main, E_helper>>,
   imports |-> <<I_appUtil>>,
   functionCalls |->
     <<[sourceFile |-> <<"s", "r", "c", "/", "a", "p", "p", ".", "t", "s">>, sourceFunction |-> <<"m", "a", "i", "n">>,
        targetFile |-> <<"s", "r", "c", "/", "u", "t", "i", "l", ".", "t", "s">>, targetFunction |-> <<"h", "e", "l", "p", "e", "r">>, count |-> 3],
       [sourceFile |-> <<"s", "r", "c", "/", "u", "t", "i", "l", ".", "t", "s">>, sourceFunction |-> <<"h", "e", "l", "p", "e", "r">>,
        targetFile |-> <<"s", "r", "c", "/", "a", "p", "p", ".", "t", "s">>, targetFunction |-> <<"m", "a", "i", "n">>],
       [sourceFile |-> <<"s", "r", "c", "/", "a", "p", "p", ".", "t", "s">>, sourceFunction |-> <<"m", "a", "i", "n">>,
        targetFile |-> <<"s", "r", "c", "/", "u", "t", "i", "l", ".", "t", "s">>, targetFunction |-> <<"m", "i", "s", "s", "i", "n", "g">>]>>]

ScanOverlap ==
  [files |-> <<F_app2>>,
   dependencies |-> [direct |-> <<D_redux5>>, transitive |-> <<D_redux5>>],
   codeEntities |-> <<E_main, E_main2>>,
   imports |-> <<I_appUtil, I_appUtil>>]

ScanWide ==
  [files |-> <<>>,
   dependencies |->
     [direct |-> [i \in 1..WideCount |->
                    [name |-> <<"d", "e", "p">> \o NumChars(i), version |-> <<"1", ".", "0", ".", "0">>]]]]

ProjectScans == {ScanFilesOnly, ScanDependencies, ScanCode, ScanOverlap, ScanWide}

(***************************************************************************)
(* KnowledgeGraphService.getRelevantContext                                *)
(***************************************************************************)
MaxNodesArg == 3         \* largest maxNodes passed explicitly
DefaultMaxNodes == 20    \* maxNodes: number = 20

\* the regular-expression class \w
WordChars == LetterChars \cup DigitChars \cup {"_"}

RECURSIVE Join(_, _)
\* Array.prototype.join
Join(parts, sep) ==
  IF parts = <<>> THEN <<>>
  ELSE IF Len(parts) = 1 THEN parts[1]
  ELSE parts[1] \o sep \o Join(Tail(parts), sep)

RECURSIVE JSONStringifyValue(_)
\* JSON.stringify of a value (strings here need no escaping)
JSONStringifyValue(v) ==
  IF "s" \in DOMAIN v THEN <<"\"">> \o v.s \o <<"\"">>
  ELSE IF "n" \in DOMAIN v THEN NumChars(v.n)
  ELSE IF "b" \in DOMAIN v THEN (IF v.b THEN <<"t", "r", "u", "e">> ELSE <<"f", "a", "l", "s", "e">>)
  ELSE <<"[">> \o Join([i \in 1..Len(v.a) |-> JSONStringifyValue(v.a[i])], <<",">>)
             \o <<"]">>

\* JSON.stringify of an object: a property whose value is undefined is left out
JSONStringify(obj) ==
  LET own == SelectSeq(obj, LAMBDA p : p.v # Undefined)
  IN <<"{">>
     \o Join([i \in 1..Len(own) |->
                <<"\"">> \o own[i].k \o <<"\"", ":">> \o JSONStringifyValue(own[i].v)],
             <<",">>)
     \o <<"}">>

\* query.split(/\s+/) without the empty pieces (which the length filter drops)
RECURSIVE SplitWords(_, _)
SplitWords(s, i) ==
  IF i > Len(s) THEN <<>>
  ELSE IF s[i] \in SpaceChars THEN SplitWords(s, i + 1)
  ELSE LET j == RunEnd(s, i, WordChars)
       IN <<Slice(s, i, j)>> \o SplitWords(s, j)

StopWords == {<<"t", "h", "e">>, <<"a", "n", "d">>, <<"t", "h", "a", "t">>, <<"h", "a", "v", "e">>, <<"f", "o", "r">>, <<"w", "i", "t", "h">>}

extractKeywords(q) ==
  LET stripped == SelectSeq(ToLowerCase(q), LAMBDA ch : ch \in WordChars \cup SpaceChars)
      words == SplitWords(stripped, 1)
      long == SelectSeq(words, LAMBDA w : Len(w) > 3)
  IN SelectSeq(long, LAMBDA w : w \notin StopWords)

\* A relevance score: num / den, or NaN (0 / 0 and whatever is added to it).
\* den is twice the keyword count, so that the bonus 0.5 is keywords / den.
NaN == [nan |-> TRUE, num |-> 0, den |-> 1]

\* the task-type bonus of lines 403-411 is granted
TaskTypeBonus(taskType, nodeType) ==
  \/ taskType = "dependency-check" /\ nodeType = "dependency"
  \/ taskType = "static-analysis" /\ nodeType = "codeEntity"

\* the forEach callback of findRelevantNodes: the entries it pushes for node
ScoreNode(node, keywords, taskType) ==
  LET nodeText == ToLowerCase(JSONStringify(node.data))
      keywordMatches == Len(SelectSeq(keywords, LAMBDA kw : Includes(nodeText, kw)))
      bonus == TaskTypeBonus(taskType, node.type)
      relevantByKeyword == Len(keywords) > 0 /\ keywordMatches > 0
  IN IF relevantByKeyword \/ bonus
     THEN <<[node |-> node,
             relevance |->
               IF Len(keywords) = 0 THEN NaN
               ELSE [nan |-> FALSE,
                     num |-> 2 * keywordMatches + (IF bonus THEN Len(keywords) ELSE 0),
                     den |-> 2 * Len(keywords)]]>>
     ELSE <<>>

findRelevantNodes(g, keywords, taskType) ==
  LET all == GraphGetAllNodes(g)
  IN Concat([i \in 1..Len(all) |-> ScoreNode(all[i], keywords, taskType)])

\* the sign of b.relevance - a.relevance; a NaN difference counts as 0
CompareRelevance(a, b) ==
  IF a.relevance.nan \/ b.relevance.nan THEN 0
  ELSE LET l == b.relevance.num * a.relevance.den
           r == a.relevance.num * b.relevance.den
       IN IF l > r THEN 1 ELSE IF l < r THEN -1 ELSE 0

\* Array.prototype.sort (stable) with the comparator of line 365
RECURSIVE SortByRelevance(_)
SortByRelevance(xs) ==
  IF xs = <<>> THEN <<>>
  ELSE LET rest == SortByRelevance(SubSeq(xs, 1, Len(xs) - 1))
           x == xs[Len(xs)]
           \* x goes behind every element that does not sort after it
           keep == {k \in 0..Len(rest) :
                      \A m \in (k + 1)..Len(rest) : CompareRelevance(x, rest[m]) < 0}
           pos == CHOOSE k \in keep : \A m \in keep : k <= m
       IN SubSeq(rest, 1, pos) \o <<x>> \o SubSeq(rest, pos + 1, Len(rest))

\* relevantNodes.slice(0, maxNodes) kept whole
SliceNone(xs, n) == xs

\* relevantNodes.slice(0, maxNodes)
SliceTop(xs, n) ==
  IF n >= 0 THEN SubSeq(xs, 1, IF n < Len(xs) THEN n ELSE Len(xs))
  ELSE SubSeq(xs, 1, IF Len(xs) + n > 0 THEN Len(xs) + n ELSE 0)

\* countByType(items, 'type')
countByType(items) ==
  [t \in {items[i].type : i \in 1..Len(items)} |->
     Cardinality({i \in 1..Len(items) : items[i].type = t})]

\* the forEach of buildContextFromNodes from element i on; acc holds
\* includedNodeIds, context.entities and context.relationships
RECURSIVE CollectContext(_, _, _, _)
CollectContext(g, relevantNodes, i, acc) ==
  IF i > Len(relevantNodes) THEN acc
  ELSE LET node == relevantNodes[i].node
           included == acc.includedNodeIds \cup {node.id}
           edges == SelectSeq(GraphGetEdgesFrom(g, node.id),
                              LAMBDA e : e.to \in included)
       IN CollectContext(g, relevantNodes, i + 1,
            [includedNodeIds |-> included,
             entities |-> Append(acc.entities,
                            [id |-> node.id, type |-> node.type, data |-> node.data]),
             relationships |-> acc.relationships \o edges])

buildContextFromNodes(g, relevantNodes) ==
  LET acc == CollectContext(g, relevantNodes, 1,
               [includedNodeIds |-> {}, entities |-> <<>>, relationships |-> <<>>])
  IN [entities |-> acc.entities,
      relationships |-> acc.relationships,
      summary |-> [entityCount |-> Len(acc.entities),
                   relationshipCount |-> Len(acc.relationships),
                   entityTypes |-> countByType(acc.entities),
                   relationshipTypes |-> countByType(acc.relationships)]]

\* getRelevantContext(taskMessage, maxNodes): the returned context, or the
\* TypeError of reading toLowerCase of undefined at line 355
getRelevantContext(g, taskMessage, maxNodes) ==
  IF "content" \notin DOMAIN taskMessage
  THEN [status |-> "error", error |-> "TypeError"]
  ELSE LET metadata == MetadataOf(taskMessage)
           keywords == extractKeywords(ToLowerCase(taskMessage.content))
           relevantNodes == findRelevantNodes(g, keywords, StrOr(metadata, "taskType", ""))
           topNodes == SliceTop(SortByRelevance(relevantNodes), maxNodes)
       IN [status |-> "ok", context |-> buildContextFromNodes(g, topNodes)]

\* Task messages handed to getRelevantContext; the last two carry no content
TaskMessages ==
  {[content |-> <<"P", "l", "e", "a", "s", "e", " ", "u", "p", "d", "a", "t", "e", " ", "t", "h", "e", " ", "l", "o", "d", "a", "s", "h", " ", "d", "e", "p", "e", "n", "d", "e", "n", "c", "y", "!">>,
    metadata |-> [taskType |-> "dependency-check"]],
   [content |-> <<"W", "h", "i", "c", "h", " ", "j", "a", "v", "a", "s", "c", "r", "i", "p", "t", " ", "f", "r", "a", "m", "e", "w", "o", "r", "k", "?">>],
   [content |-> <<"A", "n", "a", "l", "y", "z", "e", " ", "m", "a", "i", "n", " ", "f", "u", "n", "c", "t", "i", "o", "n">>, metadata |-> [taskType |-> "static-analysis"]],
   [content |-> <<"t", "y", "p", "e", "s", "c", "r", "i", "p", "t", " ", "p", "a", "t", "h">>, metadata |-> EmptyObject],
   [content |-> <<"f", "i", "x", " ", "i", "t">>],
   [content |-> <<"d", "o", " ", "i", "t">>, metadata |-> [taskType |-> "dependency-check"]],
   [metadata |-> [taskType |-> "static-analysis"]],
   EmptyObject}

InitGraph ==
  /\ pc = "ready"
  /\ graph = initializeGraph
  /\ scans = <<>>
  /\ query = NoQuery
  /\ context = NoQuery
  /\ PlanIdle
  /\ ParseIdle
  /\ CompressIdle
  /\ OrchestratorIdle

BuildProjectGraph(projectScan) ==
  /\ pc = "ready"
  /\ Len(scans) < MaxIngest
  /\ graph' = buildProjectGraph(graph, projectScan)
  /\ scans' = Append(scans, projectScan)
  /\ query' = NoQuery
  /\ context' = NoQuery
  /\ UNCHANGED <<pc, tasks, plan, content, parsed, request, response, run>>

\* getRelevantContext(taskMessage, maxNodes).  The query leaves the graph as
\* it is, so one recorded query per graph covers every later one.
GetRelevantContext(taskMessage, maxNodes) ==
  /\ pc = "ready"
  /\ query = NoQuery
  /\ query' = [status |-> "called", taskMessage |-> taskMessage, maxNodes |-> maxNodes]
  /\ context' = getRelevantContext(graph, taskMessage, maxNodes)
  /\ UNCHANGED <<pc, graph, scans, tasks, plan, content, parsed, request, response, run>>

\* getRelevantContext(taskMessage): maxNodes takes its default
GetRelevantContextDefault(taskMessage) ==
  /\ pc = "ready"
  /\ query = NoQuery
  /\ query' = [status |-> "called", taskMessage |-> taskMessage]
  /\ context' = getRelevantContext(graph, taskMessage, DefaultMaxNodes)
  /\ UNCHANGED <<pc, graph, scans, tasks, plan, content, parsed, request, response, run>>

NextGraph ==
  \/ \E projectScan \in ProjectScans : BuildProjectGraph(projectScan)
  \/ \E taskMessage \in TaskMessages, maxNodes \in 0..MaxNodesArg :
        GetRelevantContext(taskMessage, maxNodes)
  \/ \E taskMessage \in TaskMessages : GetRelevantContextDefault(taskMessage)

SpecGraph == InitGraph /\ [][NextGraph]_vars

(***************************************************************************)
(* Properties of the knowledge graph                                       *)
(***************************************************************************)
\* the graph after construction and the first n recorded ingestions
RECURSIVE GraphAfter(_)
GraphAfter(n) ==
  IF n = 0 THEN initializeGraph ELSE buildProjectGraph(GraphAfter(n - 1), scans[n])

NodeIds(g) == {g.nodes[i].id : i \in 1..Len(g.nodes)}
EdgeCount(g, e) == Cardinality({i \in 1..Len(g.edges) : g.edges[i] = e})

\* the contains edge addCodeEntitiesToGraph is to add for each code entity
ContainsEdgesOf(projectScan) ==
  IF "codeEntities" \notin DOMAIN projectScan THEN {}
  ELSE {[from |-> "file:" \o Str(projectScan.codeEntities[i].file),
         to |-> "entity:" \o Str(projectScan.codeEntities[i].type) \o ":"
                 \o Str(projectScan.codeEntities[i].name) \o ":"
                 \o Str(projectScan.codeEntities[i].file) \o ":"
                 \o ToString(projectScan.codeEntities[i].position),
         type |-> "contains",
         data |-> Undefined] : i \in 1..Len(projectScan.codeEntities)}

QueryAnswered == query.status = "called" /\ context.status = "ok"
QueryLimit == IF "maxNodes" \in DOMAIN query THEN query.maxNodes ELSE 20

\* C5: getRelevantContext returns at most maxNodes entities (20 when maxNodes
\* is omitted); every relationship it returns has its from and its to among
\* the ids of the returned entities; summary.entityCount and
\* summary.relationshipCount are the lengths of the two lists.
C5_ContextWithinMaxNodes ==
  QueryAnswered =>
    LET entities == context.context.entities
        relationships == context.context.relationships
        ids == {entities[i].id : i \in 1..Len(entities)}
    IN /\ Len(entities) <= QueryLimit
       /\ \A i \in 1..Len(relationships) :
             relationships[i].from \in ids /\ relationships[i].to \in ids
       /\ context.context.summary.entityCount = Len(entities)
       /\ context.context.summary.relationshipCount = Len(relationships)

\* a query that found more relevant nodes than the default limit, cut to 20
C5_Witness ==
  /\ QueryAnswered
  /\ "maxNodes" \notin DOMAIN query
  /\ Len(context.context.entities) = 20
  /\ Len(graph.nodes) > 20
  /\ context.context.relationships # <<>>

\* C7: buildProjectGraph called twice with the same scan leaves the same nodes
\* (ids and data) as calling it once, none duplicated and the seeded ones
\* still there, while every edge the scan produces, its contains edges among
\* them, is there once more after the second ingestion than after the first.
C7_SecondIngestionKeepsNodes ==
  (Len(scans) >= 2 /\ scans[Len(scans)] = scans[Len(scans) - 1]) =>
    LET before == GraphAfter(Len(scans) - 2)
        once == GraphAfter(Len(scans) - 1)
        produced == {e \in Range(once.edges) : EdgeCount(once, e) > EdgeCount(before, e)}
    IN /\ NodeIds(graph) = NodeIds(once)
       /\ Range(graph.nodes) = Range(once.nodes)
       /\ Cardinality(NodeIds(graph)) = Len(graph.nodes)
       /\ NodeIds(initializeGraph) \subseteq NodeIds(graph)
       /\ ContainsEdgesOf(scans[Len(scans)]) \subseteq produced
       /\ \A e \in Range(graph.edges) :
             EdgeCount(graph, e) - EdgeCount(once, e)
               = EdgeCount(once, e) - EdgeCount(before, e)

\* the same scan, one with all four kinds of edge, ingested twice in a row
C7_Witness ==
  /\ Len(scans) = 2
  /\ scans[1] = scans[2]
  /\ \A type \in {"requires", "contains", "imports", "calls"} :
        \E e \in Range(graph.edges) : e.type = type /\ EdgeCount(graph, e) = 2

\* C8: a query target without content (a task message whose content is
\* absent, or a bare value) gets an empty context, no entities and no
\* relationships, instead of an error.
C8_MissingContentGivesEmptyContext ==
  (query.status = "called" /\ "content" \notin DOMAIN query.taskMessage) =>
    /\ context.status = "ok"
    /\ context.context.entities = <<>>
    /\ context.context.relationships = <<>>

(***************************************************************************)
(* ContextCompressor.  A component is a record; its type, path, content    *)
(* and the names of its dependencies are character sequences.  The         *)
(* collaborators TokenCounter, ContextPrioritizer and CodeSummarizer are   *)
(* outside the repository's sources and follow the design document.        *)
(***************************************************************************)
MaxDependencyList == 3   \* longest dependencies list enumerated score by score
MaxComponents == 2       \* most components in one context
MaxTokenSteps == 16      \* maxTokens ranges over 0, 5 .. 5 * MaxTokenSteps
MaxBudgetSteps == 9      \* budgets range up to 25 * MaxBudgetSteps
DefaultMaxTokens == 2000 \* maxTokens: number = 2000
TokensPerDependency == 50 \* Math.floor(budget / 50)
CharsPerToken == 4       \* TokenCounter: about four characters to a token

\* JavaScript null
Null == [null |-> TRUE]

\* TokenCounter.count: an estimate that grows with the length of the text
TokenCount(text) == (Len(text) + CharsPerToken - 1) \div CharsPerToken

\* CodeSummarizer.summarize(content, budget): a summary truncated to the budget
Summarize(text, budget) ==
  IF budget <= 0 THEN <<>>
  ELSE SubSeq(text, 1, IF Len(text) < CharsPerToken * budget
                       THEN Len(text) ELSE CharsPerToken * budget)

\* ContextPrioritizer.prioritize(context): the components, most important first
Prioritize(ctx) == IF "components" \in DOMAIN ctx THEN ctx.components ELSE <<>>

\* JSON.stringify of a string, of a member and of an object and an array
JsonString(text) == <<"\"">> \o text \o <<"\"">>
JsonMember(key, valueText) == JsonString(key) \o <<":">> \o valueText
JsonObject(members) == <<"{">> \o Join(members, <<",">>) \o <<"}">>
JsonArray(items) == <<"[">> \o Join(items, <<",">>) \o <<"]">>

DependencyJson(dep) ==
  JsonObject(<<JsonMember(<<"n", "a", "m", "e">>, JsonString(dep.name)),
               JsonMember(<<"i", "m", "p", "o", "r", "t", "a", "n", "c", "e", "S", "c", "o", "r", "e">>, NumChars(dep.importanceScore))>>)

\* JSON.stringify(component): the members of the fields the component has
ComponentJson(component) ==
  JsonObject(
    (IF "type" \in DOMAIN component
     THEN <<JsonMember(<<"t", "y", "p", "e">>, JsonString(component.type))>> ELSE <<>>)
    \o (IF "path" \in DOMAIN component
        THEN <<JsonMember(<<"p", "a", "t", "h">>, JsonString(component.path))>> ELSE <<>>)
    \o (IF "content" \in DOMAIN component
        THEN <<JsonMember(<<"c", "o", "n", "t", "e", "n", "t">>, JsonString(component.content))>> ELSE <<>>)
    \o (IF "summarizedContent" \in DOMAIN component
        THEN <<JsonMember(<<"s", "u", "m", "m", "a", "r", "i", "z", "e", "d", "C", "o", "n", "t", "e", "n", "t">>,
                          JsonString(component.summarizedContent))>> ELSE <<>>)
    \o (IF "dependencies" \in DOMAIN component
        THEN <<JsonMember(<<"d", "e", "p", "e", "n", "d", "e", "n", "c", "i", "e", "s">>,
                 JsonArray([i \in 1..Len(component.dependencies) |->
                              DependencyJson(component.dependencies[i])]))>>
        ELSE <<>>)
    \o (IF "totalCount" \in DOMAIN component
        THEN <<JsonMember(<<"t", "o", "t", "a", "l", "C", "o", "u", "n", "t">>, NumChars(component.totalCount))>> ELSE <<>>)
    \o (IF "isCompressed" \in DOMAIN component
        THEN <<JsonMember(<<"i", "s", "C", "o", "m", "p", "r", "e", "s", "s", "e", "d">>,
                          IF component.isCompressed THEN <<"t", "r", "u", "e">> ELSE <<"f", "a", "l", "s", "e">>)>>
        ELSE <<>>))

EssentialFields == {"userId", "projectType", "requestType", "timestamp"}

\* extractEssentialMetadata: a field the context lacks is undefined, and
\* here absent
extractEssentialMetadata(ctx) ==
  [f \in EssentialFields \cap DOMAIN ctx |-> ctx[f]]

\* JSON.stringify(essentialMetadata), which leaves undefined fields out
EssentialJson(metadata) ==
  JsonObject(
    (IF "userId" \in DOMAIN metadata
     THEN <<JsonMember(<<"u", "s", "e", "r", "I", "d">>, JsonString(metadata.userId))>> ELSE <<>>)
    \o (IF "projectType" \in DOMAIN metadata
        THEN <<JsonMember(<<"p", "r", "o", "j", "e", "c", "t", "T", "y", "p", "e">>, JsonString(metadata.projectType))>>
        ELSE <<>>)
    \o (IF "requestType" \in DOMAIN metadata
        THEN <<JsonMember(<<"r", "e", "q", "u", "e", "s", "t", "T", "y", "p", "e">>, JsonString(metadata.requestType))>>
        ELSE <<>>)
    \o (IF "timestamp" \in DOMAIN metadata
        THEN <<JsonMember(<<"t", "i", "m", "e", "s", "t", "a", "m", "p">>, NumChars(metadata.timestamp))>> ELSE <<>>))

\* component.dependencies.sort((a, b) => b.importanceScore - a.importanceScore):
\* descending, equal scores keeping their order
RECURSIVE SortByImportance(_)
SortByImportance(deps) ==
  IF deps = <<>> THEN <<>>
  ELSE LET rest == SortByImportance(SubSeq(deps, 1, Len(deps) - 1))
           x == deps[Len(deps)]
           keep == {k \in 0..Len(rest) :
                      \A m \in (k + 1)..Len(rest) :
                         rest[m].importanceScore < x.importanceScore}
           pos == CHOOSE k \in keep : \A m \in keep : k <= m
       IN SubSeq(rest, 1, pos) \o <<x>> \o SubSeq(rest, pos + 1, Len(rest))

\* Math.floor(budget / 50), not kept at 1 or above
KeepCountUnclamped(budget) == budget \div TokensPerDependency

\* Math.max(1, Math.floor(budget / 50))
KeepCount(budget) ==
  IF budget \div TokensPerDependency > 1 THEN budget \div TokensPerDependency ELSE 1

\* Each compress*Component yields what it returns (value) and the component
\* as the call leaves it.

compressCodeComponent(component, budget) ==
  [value |-> IF TokenCount(component.content) > budget
             THEN [f \in {"type", "summarizedContent", "isCompressed"}
                           \cup ({"path"} \cap DOMAIN component) |->
                     CASE f = "type" -> <<"c", "o", "d", "e">>
                       [] f = "path" -> component.path
                       [] f = "summarizedContent" -> Summarize(component.content, budget)
                       [] f = "isCompressed" -> TRUE]
             ELSE Null,
   component |-> component]

\* the sort is in place: the component keeps the sorted list
compressDependenciesComponent(component, budget) ==
  IF Len(component.dependencies) > 0
  THEN LET sorted == SortByImportance(component.dependencies)
       IN [value |-> [type |-> <<"d", "e", "p", "e", "n", "d", "e", "n", "c", "i", "e", "s">>,
                      dependencies |-> SliceTop(sorted, KeepCount(budget)),
                      totalCount |-> Len(component.dependencies),
                      isCompressed |-> TRUE],
           component |-> [component EXCEPT !.dependencies = sorted]]
  ELSE [value |-> Null, component |-> component]

compressDocumentationComponent(component, budget) ==
  [value |-> IF /\ CharsOr(component, "content", <<>>) # <<>>
                /\ TokenCount(component.content) > budget
             THEN [f \in {"type", "summarizedContent", "isCompressed"}
                           \cup ({"path"} \cap DOMAIN component) |->
                     CASE f = "type" -> <<"d", "o", "c", "u", "m", "e", "n", "t", "a", "t", "i", "o", "n">>
                       [] f = "path" -> component.path
                       [] f = "summarizedContent" -> Summarize(component.content, budget)
                       [] f = "isCompressed" -> TRUE]
             ELSE Null,
   component |-> component]

compressComponent(component, budget) ==
  CASE component.type = <<"c", "o", "d", "e">> -> compressCodeComponent(component, budget)
    [] component.type = <<"d", "e", "p", "e", "n", "d", "e", "n", "c", "i", "e", "s">> ->
         compressDependenciesComponent(component, budget)
    [] component.type = <<"d", "o", "c", "u", "m", "e", "n", "t", "a", "t", "i", "o", "n">> ->
         compressDocumentationComponent(component, budget)
    [] OTHER -> [value |-> Null, component |-> component]

\* the loop of fitComponentsInBudget without its break: packing goes on after
\* a compressed component
RECURSIVE fitFromNoBreak(_, _, _, _, _)
fitFromNoBreak(components, i, budget, result, usedTokens) ==
  IF i > Len(components) THEN [result |-> result, components |-> components]
  ELSE LET component == components[i]
           componentTokens == TokenCount(ComponentJson(component))
       IN IF usedTokens + componentTokens <= budget
          THEN fitFromNoBreak(components, i + 1, budget,
                              Append(result, component), usedTokens + componentTokens)
          ELSE LET out == compressComponent(component, budget - usedTokens)
                   left == [components EXCEPT ![i] = out.component]
               IN fitFromNoBreak(left, i + 1, budget,
                                 IF out.value # Null THEN Append(result, out.value)
                                 ELSE result,
                                 usedTokens)

\* the loop of fitComponentsInBudget from component i on; yields the result
\* array and the components as the loop leaves them
RECURSIVE fitFrom(_, _, _, _, _)
fitFrom(components, i, budget, result, usedTokens) ==
  IF i > Len(components) THEN [result |-> result, components |-> components]
  ELSE LET component == components[i]
           componentTokens == TokenCount(ComponentJson(component))
       IN IF usedTokens + componentTokens <= budget
          THEN fitFrom(components, i + 1, budget,
                       Append(result, component), usedTokens + componentTokens)
          ELSE LET out == compressComponent(component, budget - usedTokens)
                   left == [components EXCEPT ![i] = out.component]
               IN IF out.value # Null
                  THEN [result |-> Append(result, out.value), components |-> left]
                  ELSE fitFrom(left, i + 1, budget, result, usedTokens)

fitComponentsInBudget(components, budget) == fitFrom(components, 1, budget, <<>>, 0)

\* compress(context, maxTokens): the returned object (value) and the context
\* as the call leaves it
compress(ctx, maxTokens) ==
  LET essentialMetadata == extractEssentialMetadata(ctx)
      essentialTokens == TokenCount(EssentialJson(essentialMetadata))
      remainingTokens == maxTokens - essentialTokens
      fitted == fitComponentsInBudget(Prioritize(ctx), remainingTokens)
  IN [value |-> [f \in DOMAIN essentialMetadata \cup {"components"} |->
                   IF f = "components" THEN fitted.result ELSE essentialMetadata[f]],
      context |-> IF "components" \in DOMAIN ctx
                  THEN [ctx EXCEPT !.components = fitted.components] ELSE ctx]

\* Arguments of the calls
DependencyAt(i, score) == [name |-> <<"d", "e", "p">> \o NumChars(i), importanceScore |-> score]
ImportanceScores == {1, 2, 3}

\* every list of up to MaxDependencyList dependencies over the scores
DependencyLists ==
  UNION {{[i \in 1..k |-> DependencyAt(i, f[i])] : f \in [1..k -> ImportanceScores]} :
           k \in 0..MaxDependencyList}

\* ten dependencies, with scores 3, 6, 2, 5, 1, 4, 0, 3, 6, 2
TenDependencies == [i \in 1..10 |-> DependencyAt(i, (3 * i) % 7)]

Budgets == UNION {{25 * i - 1, 25 * i} : i \in -2..MaxBudgetSteps}

CodeSmall == [type |-> <<"c", "o", "d", "e">>, path |-> <<"a", ".", "t", "s">>, content |-> <<"x", "=", "1">>]
CodeLarge ==
  [type |-> <<"c", "o", "d", "e">>, path |-> <<"s", "r", "c", "/", "a", "p", "p", ".", "t", "s">>,
   content |-> <<"e", "x", "p", "o", "r", "t", " ", "f", "u", "n", "c", "t", "i", "o", "n", " ", "m", "a", "i", "n", "(", ")", " ", "{", " ", "r", "e", "t", "u", "r", "n", " ", "h", "e", "l", "p", "e", "r", "(", "1", ")", " ", "+", " ", "h", "e", "l", "p", "e", "r", "(", "2", ")", ";", " ", "}">>]
DependenciesNone == [type |-> <<"d", "e", "p", "e", "n", "d", "e", "n", "c", "i", "e", "s">>, dependencies |-> <<>>]
DependenciesOne ==
  [type |-> <<"d", "e", "p", "e", "n", "d", "e", "n", "c", "i", "e", "s">>, dependencies |-> <<DependencyAt(1, 2)>>]
DependenciesTwo ==
  [type |-> <<"d", "e", "p", "e", "n", "d", "e", "n", "c", "i", "e", "s">>,
   dependencies |-> <<DependencyAt(1, 1), DependencyAt(2, 3)>>]
DocumentationBare == [type |-> <<"d", "o", "c", "u", "m", "e", "n", "t", "a", "t", "i", "o", "n">>, path |-> <<"R", "E", "A", "D", "M", "E", ".", "m", "d">>]
DocumentationLong ==
  [type |-> <<"d", "o", "c", "u", "m", "e", "n", "t", "a", "t", "i", "o", "n">>, path |-> <<"R", "E", "A", "D", "M", "E", ".", "m", "d">>,
   content |-> <<"R", "u", "n", " ", "t", "h", "e", " ", "s", "c", "a", "n", "n", "e", "r", ",", " ", "t", "h", "e", "n", " ", "t", "h", "e", " ", "o", "r", "c", "h", "e", "s", "t", "r", "a", "t", "o", "r", ".">>]
ConfigComponent == [type |-> <<"c", "o", "n", "f", "i", "g">>, content |-> <<"d", "e", "b", "u", "g">>]

Components ==
  {CodeSmall, CodeLarge, DependenciesNone, DependenciesOne, DependenciesTwo,
   DocumentationBare, DocumentationLong, ConfigComponent}

\* the context with all four essential fields, and the one with none
ContextWith(components) ==
  {[userId |-> <<"u", "1">>, projectType |-> <<"w", "e", "b">>, requestType |-> <<"f", "i", "x">>,
    timestamp |-> 17, components |-> components],
   [components |-> components]}

MaxTokensValues == {5 * i : i \in 0..MaxTokenSteps}

InitCompress ==
  /\ pc = "input"
  /\ request \in
       {[op |-> "compressDependenciesComponent",
         component |-> [type |-> <<"d", "e", "p", "e", "n", "d", "e", "n", "c", "i", "e", "s">>, dependencies |-> deps],
         budget |-> budget] :
          deps \in DependencyLists \cup {TenDependencies}, budget \in Budgets}
       \cup UNION {{[op |-> "compress", context |-> ctx, maxTokens |-> maxTokens] :
                      maxTokens \in MaxTokensValues}
                   \cup {[op |-> "compress", context |-> ctx]} :
                     ctx \in UNION {ContextWith(components) :
                                      components \in AllSeqs(Components, MaxComponents)}}
  /\ response = NoRequest
  /\ PlanIdle
  /\ ParseIdle
  /\ GraphIdle
  /\ OrchestratorIdle

\* compress(context, maxTokens), or compress(context) with the default
Compress ==
  /\ pc = "input"
  /\ request.op = "compress"
  /\ LET out == compress(request.context,
                         IF "maxTokens" \in DOMAIN request
                         THEN request.maxTokens ELSE DefaultMaxTokens)
     IN response' = [op |-> "returned", value |-> out.value, argument |-> out.context]
  /\ pc' = "done"
  /\ UNCHANGED <<request, tasks, plan, content, parsed, graph, scans, query, context, run>>

\* compressDependenciesComponent(component, budget)
CompressDependenciesComponent ==
  /\ pc = "input"
  /\ request.op = "compressDependenciesComponent"
  /\ LET out == compressDependenciesComponent(request.component, request.budget)
     IN response' = [op |-> "returned", value |-> out.value, argument |-> out.component]
  /\ pc' = "done"
  /\ UNCHANGED <<request, tasks, plan, content, parsed, graph, scans, query, context, run>>

NextCompress == Compress \/ CompressDependenciesComponent

SpecCompress == InitCompress /\ [][NextCompress]_vars

(***************************************************************************)
(* Properties of the compressor                                            *)
(***************************************************************************)
\* the estimated token costs of the components, added up
RECURSIVE TotalTokens(_)
TotalTokens(components) ==
  IF components = <<>> THEN 0
  ELSE TokenCount(ComponentJson(Head(components))) + TotalTokens(Tail(components))

\* C6: compress returns the four essential metadata fields unchanged, and
\* when budget minus the essential-metadata cost is not negative, the
\* estimated token costs of the returned components, verbatim and compressed
\* alike, add up to no more than that difference.
C6_ComponentsWithinBudget ==
  (request.op = "compress" /\ response.op = "returned") =>
    LET value == response.value
        budget == IF "maxTokens" \in DOMAIN request THEN request.maxTokens ELSE 2000
        essential == [f \in EssentialFields \cap DOMAIN value |-> value[f]]
        remaining == budget - TokenCount(EssentialJson(essential))
    IN /\ \A f \in EssentialFields :
             /\ f \in DOMAIN value <=> f \in DOMAIN request.context
             /\ f \in DOMAIN value => value[f] = request.context[f]
       /\ remaining >= 0 => TotalTokens(value.components) <= remaining

\* C9: compressing a dependencies component of k > 0 dependencies with budget
\* b keeps min(k, max(1, floor(b / 50))) of them, none of the dropped ones
\* scoring higher than a kept one, with totalCount = k and isCompressed
\* true; with an empty list the strategy declines.
C9_TopDependenciesKept ==
  (request.op = "compressDependenciesComponent" /\ response.op = "returned") =>
    LET deps == request.component.dependencies
        k == Len(deps)
        floor == request.budget \div 50
        atLeastOne == IF floor > 1 THEN floor ELSE 1
        n == IF k < atLeastOne THEN k ELSE atLeastOne
    IN IF k = 0 THEN response.value = Null
       ELSE /\ response.value # Null
            /\ LET kept == Range(response.value.dependencies)
               IN /\ Len(response.value.dependencies) = n
                  /\ Cardinality(kept) = n
                  /\ kept \subseteq Range(deps)
                  /\ \A d \in Range(deps) \ kept : \A e \in kept :
                        d.importanceScore <= e.importanceScore
            /\ response.value.totalCount = k
            /\ response.value.isCompressed

\* ten dependencies compressed with budget 200: four are kept, totalCount 10
C9_Witness ==
  /\ request.op = "compressDependenciesComponent"
  /\ response.op = "returned"
  /\ Len(request.component.dependencies) = 10
  /\ request.budget = 200
  /\ Len(response.value.dependencies) = 4
  /\ response.value.totalCount = 10

(***************************************************************************)
(* Orchestrator.processPrompt.  A prompt is given by what parseDecomposition*)
(* finds in it (parse) and by the properties getRelevantContext can read   *)
(* off it (message): a string has none, so its message is the empty        *)
(* object.  Callers that bypass the declared type pass a task message,     *)
(* whose text "[object Object]" holds no JSON array and no task block.     *)
(* The worker adapters are outside the repository's sources.               *)
(***************************************************************************)
MaxPromptTasks == 1   \* most tasks written in one prompt

StringPrompt(parse) == [string |-> TRUE, parse |-> parse, message |-> EmptyObject]
MessagePrompt(message) ==
  [string |-> FALSE, parse |-> [kind |-> "text", matches |-> <<>>], message |-> message]

Assistors == {"claude", "roocode", "gpt"}

\* aiAssistor === 'claude' ? this.claude : this.rooCode
WorkerFor(aiAssistor) == IF aiAssistor = "claude" THEN "claude" ELSE "roocode"

InitOrchestrator ==
  /\ pc = "input"
  /\ run \in
       {[status |-> "called", userPrompt |-> prompt, aiAssistor |-> aiAssistor,
         steps |-> <<>>, worker |-> "none"] :
          prompt \in
            {StringPrompt([kind |-> "json", value |-> v]) :
               v \in AllSeqs(JsonElements, MaxPromptTasks)}
            \cup {StringPrompt([kind |-> "text", matches |-> ms]) :
                    ms \in AllSeqs(TextMatches, MaxPromptTasks)}
            \cup {MessagePrompt(m) : m \in {t \in TaskMessages : "content" \in DOMAIN t}},
          aiAssistor \in Assistors}
       \cup
       \* processPrompt(userPrompt): aiAssistor takes its default
       {[status |-> "called", userPrompt |-> StringPrompt([kind |-> "text", matches |-> ms]),
         aiAssistor |-> "roocode", defaulted |-> TRUE, steps |-> <<>>, worker |-> "none"] :
          ms \in AllSeqs(TextMatches, MaxPromptTasks)}
  /\ graph = initializeGraph
  /\ scans = <<>>
  /\ query = NoQuery
  /\ context = NoQuery
  /\ parsed = <<>>
  /\ content = <<>>
  /\ PlanIdle
  /\ CompressIdle

\* processPrompt up to its await: TaskManager.decomposePrompt runs
\* parseDecomposition on the prompt and resolves with the tasks
DecomposePrompt ==
  /\ pc = "input"
  /\ run.status = "called"
  /\ content' = run.userPrompt.parse
  /\ parsed' = parseDecomposition(run.userPrompt.parse)
  /\ run' = [run EXCEPT !.steps = Append(@, "decompose")]
  /\ pc' = "awaiting"
  /\ UNCHANGED <<tasks, plan, graph, scans, query, context, request, response>>

\* processPrompt after the await, when getRelevantContext throws: the call
\* is rejected before compress and before any worker is reached
QueryThrows ==
  /\ pc = "awaiting"
  /\ LET answer == getRelevantContext(graph, run.userPrompt.message, DefaultMaxNodes)
     IN /\ answer.status = "error"
        /\ query' = [status |-> "called", taskMessage |-> run.userPrompt.message]
        /\ context' = answer
        /\ run' = [run EXCEPT !.status = "rejected"]
  /\ pc' = "done"
  /\ UNCHANGED <<tasks, plan, content, parsed, graph, scans, request, response>>

\* processPrompt after the await, when getRelevantContext returns: compress
\* of the context with the default budget, then execute on the chosen worker
QueryCompressExecute ==
  /\ pc = "awaiting"
  /\ LET answer == getRelevantContext(graph, run.userPrompt.message, DefaultMaxNodes)
     IN /\ answer.status = "ok"
        /\ query' = [status |-> "called", taskMessage |-> run.userPrompt.message]
        /\ context' = answer
        /\ LET out == compress(answer.context, DefaultMaxTokens)
           IN /\ request' = [op |-> "compress", context |-> answer.context]
              /\ response' = [op |-> "returned", value |-> out.value,
                              argument |-> out.context]
              /\ run' = [run EXCEPT
                           !.steps = @ \o <<"query", "compress", "execute">>,
                           !.worker = WorkerFor(run.aiAssistor),
                           !.status = "executing"]
  /\ pc' = "executing"
  /\ UNCHANGED <<tasks, plan, content, parsed, graph, scans>>

\* the worker's execute(compressedContext) settles and processPrompt with it
WorkerSettles ==
  /\ pc = "executing"
  /\ run' = [run EXCEPT !.status = "settled"]
  /\ pc' = "done"
  /\ UNCHANGED <<tasks, plan, content, parsed, graph, scans, query, context,
                 request, response>>

NextOrchestrator ==
  DecomposePrompt \/ QueryThrows \/ QueryCompressExecute \/ WorkerSettles

SpecOrchestrator == InitOrchestrator /\ [][NextOrchestrator]_vars

IsPrefix(s, t) == Len(s) <= Len(t) /\ \A i \in 1..Len(s) : s[i] = t[i]

\* C11: every processPrompt call runs decomposition, the relevance query,
\* compression and one worker execution in this order, the worker being the
\* Claude adapter for 'claude' and the RooCode adapter otherwise and
\* receiving the compressed context; and the call of a prompt string does
\* not end before it has reached the worker execution.
C11_StepsInOrderUpToWorker ==
  run.status # "none" =>
    /\ IsPrefix(run.steps, <<"decompose", "query", "compress", "execute">>)
    /\ run.worker # "none" =>
          /\ run.worker = (IF run.aiAssistor = "claude" THEN "claude" ELSE "roocode")
          /\ request.context = context.context
          /\ run.steps = <<"decompose", "query", "compress", "execute">>
    /\ (pc = "done" /\ run.userPrompt.string) => run.worker # "none"

(***************************************************************************)
(* Further properties of the knowledge graph                               *)
(***************************************************************************)
\* C12: the relationships getRelevantContext returns are complete for the
\* selection: every stored edge whose from and to are both among the returned
\* entities is among them, once per stored edge, whatever the rank order of
\* its two endpoints; an edge with an endpoint outside is left out.
C12_RelationshipsComplete ==
  QueryAnswered =>
    LET entities == context.context.entities
        relationships == context.context.relationships
        ids == {entities[i].id : i \in 1..Len(entities)}
    IN /\ \A e \in Range(graph.edges) :
             (e.from \in ids /\ e.to \in ids) =>
                Cardinality({i \in 1..Len(relationships) : relationships[i] = e})
                  = EdgeCount(graph, e)
       /\ \A i \in 1..Len(relationships) :
             relationships[i].from \in ids /\ relationships[i].to \in ids

\* the total score of a node for the recorded query, as twice-the-keyword-
\* count-ths: 2 * matches, plus the keyword count for the task-type bonus
ScoreNumerator(node) ==
  LET keywords == extractKeywords(query.taskMessage.content)
      metadata == MetadataOf(query.taskMessage)
      taskType == StrOr(metadata, "taskType", "")
      text == ToLowerCase(JSONStringify(node.data))
      matches == Cardinality({i \in 1..Len(keywords) : Includes(text, keywords[i])})
      bonus == \/ taskType = "dependency-check" /\ node.type = "dependency"
               \/ taskType = "static-analysis" /\ node.type = "codeEntity"
  IN 2 * matches + (IF bonus THEN Len(keywords) ELSE 0)

\* C13: for every query, one without a surviving keyword included, and every
\* task type, the entities returned have a strictly positive total score
\* (matching keywords / keywords, plus 0.5 for the task-type bonus), are in
\* non-increasing order of it, and no node left out scores strictly higher
\* than a returned one.
C13_EntitiesRankedByScore ==
  QueryAnswered =>
    LET entities == context.context.entities
        ids == {entities[i].id : i \in 1..Len(entities)}
        defined == extractKeywords(query.taskMessage.content) # <<>>
    IN /\ \A i \in 1..Len(entities) : defined /\ ScoreNumerator(entities[i]) > 0
       /\ \A i, j \in 1..Len(entities) :
             i < j => ScoreNumerator(entities[i]) >= ScoreNumerator(entities[j])
       /\ \A k \in 1..Len(graph.nodes) : \A i \in 1..Len(entities) :
             graph.nodes[k].id \notin ids =>
               ScoreNumerator(graph.nodes[k]) <= ScoreNumerator(entities[i])

(***************************************************************************)
(* Further properties of the compressor                                    *)
(***************************************************************************)
CompressReturned == request.op = "compress" /\ response.op = "returned"

\* maxTokens less the estimated cost of the returned essential metadata
RemainingTokens ==
  LET value == response.value
      essential == [f \in EssentialFields \cap DOMAIN value |-> value[f]]
  IN (IF "maxTokens" \in DOMAIN request THEN request.maxTokens ELSE 2000)
       - TokenCount(EssentialJson(essential))

IsCompressed(component) == "isCompressed" \in DOMAIN component

\* what the three rules of greedy packing give for the components still to
\* be considered, with used tokens already taken from the budget
RECURSIVE GreedyPacking(_, _, _)
GreedyPacking(components, budget, used) ==
  IF components = <<>> THEN <<>>
  ELSE LET first == Head(components)
           cost == TokenCount(ComponentJson(first))
           compressed == compressComponent(first, budget - used).value
       IN IF cost <= budget - used
          THEN <<first>> \o GreedyPacking(Tail(components), budget, used + cost)
          ELSE IF compressed # Null THEN <<compressed>>
          ELSE GreedyPacking(Tail(components), budget, used)

\* C14: packing takes the components in priority order; one that fits the
\* unused budget is included verbatim and its cost deducted; one that does
\* not fit and can be compressed is included compressed and packing stops;
\* one that does not fit and cannot be compressed is left out and packing
\* goes on.  So the result is a subsequence of the priority order with at
\* most one compressed component, which is its last element.
C14_GreedyPacking ==
  CompressReturned =>
    LET given == request.context.components
        result == response.value.components
    IN /\ result = GreedyPacking(given, RemainingTokens, 0)
       /\ \A i \in 1..Len(result) : IsCompressed(result[i]) => i = Len(result)
       /\ \E pick \in [1..Len(result) -> 1..Len(given)] :
             /\ \A i, k \in 1..Len(result) : i < k => pick[i] < pick[k]
             /\ \A i \in 1..Len(result) :
                   \/ result[i] = given[pick[i]]
                   \/ /\ IsCompressed(result[i])
                      /\ result[i].type = given[pick[i]].type

\* a component that did not fit was compressed and ended the packing,
\* although the one after it would have fit the unused budget
C14_Witness ==
  /\ CompressReturned
  /\ Len(request.context.components) = 2
  /\ Len(response.value.components) = 1
  /\ IsCompressed(response.value.components[1])
  /\ TokenCount(ComponentJson(request.context.components[2])) <= RemainingTokens

\* C15: when the essential metadata alone cost more than maxTokens, compress
\* returns the essential metadata with an empty components list: no component
\* of any type, verbatim or compressed.
C15_NegativeBudgetPacksNothing ==
  (CompressReturned /\ RemainingTokens < 0) =>
    /\ \A f \in EssentialFields \cap DOMAIN request.context :
          f \in DOMAIN response.value /\ response.value[f] = request.context[f]
    /\ response.value.components = <<>>

(***************************************************************************)
(* Further properties of buildExecutionPlan                                *)
(***************************************************************************)
\* C16: for a task list with distinct ids in which no task has an in-plan
\* dependency, buildExecutionPlan returns the tasks in exactly the order
\* given, and a second call on the same input returns the same sequence.
C16_IndependentTasksKeepOrder ==
  (pc = "done" /\ UniqueIds(tasks) /\ InPlanRel(tasks) = {}) =>
    /\ plan.status = "ok"
    /\ plan.order = tasks
    /\ buildExecutionPlan(tasks) = plan

(***************************************************************************)
(* Properties of extractCodeRelationships                                  *)
(***************************************************************************)
LastScan == scans[Len(scans)]
ImportsOf(projectScan) ==
  IF "imports" \in DOMAIN projectScan THEN projectScan.imports ELSE <<>>
CallsOf(projectScan) ==
  IF "functionCalls" \in DOMAIN projectScan THEN projectScan.functionCalls ELSE <<>>
EntitiesOf(projectScan) ==
  IF "codeEntities" \in DOMAIN projectScan THEN projectScan.codeEntities ELSE <<>>

ImportEdge(imp) ==
  [from |-> "file:" \o Str(imp.sourceFile), to |-> "file:" \o Str(imp.targetFile),
   type |-> "imports", data |-> Undefined]

\* both ends of the call are among the scanned entities
BothFound(projectScan, call) ==
  /\ \E e \in Range(EntitiesOf(projectScan)) :
        e.file = call.sourceFile /\ e.name = call.sourceFunction
  /\ \E e \in Range(EntitiesOf(projectScan)) :
        e.file = call.targetFile /\ e.name = call.targetFunction

\* edges of the given type, counted with their multiplicity
TypeCount(g, type) == Cardinality({i \in 1..Len(g.edges) : g.edges[i].type = type})

\* C17: for every scan, one without codeEntities included, buildProjectGraph
\* adds one imports edge file:<sourceFile> -> file:<targetFile> per import
\* record, and a calls edge (count as given, or 1) for a function-call record
\* exactly when caller and callee are both among the scanned entities.
C17_ImportAndCallEdges ==
  Len(scans) >= 1 =>
    LET before == GraphAfter(Len(scans) - 1)
        imports == ImportsOf(LastScan)
        calls == CallsOf(LastScan)
        found == {k \in 1..Len(calls) : BothFound(LastScan, calls[k])}
    IN /\ \A i \in 1..Len(imports) :
             EdgeCount(graph, ImportEdge(imports[i]))
               - EdgeCount(before, ImportEdge(imports[i]))
               = Cardinality({k \in 1..Len(imports) : imports[k] = imports[i]})
       /\ TypeCount(graph, "imports") - TypeCount(before, "imports") = Len(imports)
       /\ TypeCount(graph, "calls") - TypeCount(before, "calls") = Cardinality(found)
       /\ \A k \in found :
             \E e \in Range(graph.edges) :
                /\ e.type = "calls"
                /\ e.data = [count |-> IF "count" \in DOMAIN calls[k]
                                       THEN calls[k].count ELSE 1]

(***************************************************************************)
(* Properties of parseDependencies                                         *)
(***************************************************************************)
TokenChars == IdChars \cup DigitChars

\* the maximal runs of letters, digits, hyphens and underscores of s, in order
RECURSIVE TokensFrom(_, _)
TokensFrom(s, i) ==
  IF i > Len(s) THEN <<>>
  ELSE LET end == RunEnd(s, i, TokenChars)
       IN IF end = i THEN TokensFrom(s, i + 1)
          ELSE <<Slice(s, i, end)>> \o TokensFrom(s, end)

Tokens(s) == TokensFrom(s, 1)

IsNumeric(t) == t # <<>> /\ \A k \in 1..Len(t) : t[k] \in DigitChars

\* the number n of a token n or Taskn, <<>> for any other token
NumberOf(t) ==
  IF IsNumeric(t) THEN t
  ELSE IF MatchesAt(ToLowerCase(t), <<"t", "a", "s", "k">>, 1) /\ IsNumeric(Slice(t, 5, Len(t) + 1))
  THEN Slice(t, 5, Len(t) + 1)
  ELSE <<>>

\* free text between the references
FreeTextWords == {<<"a", "n", "d">>}

\* a lowercase id token of letters, digits, hyphens and underscores
IsIdToken(t) ==
  /\ \A k \in 1..Len(t) : t[k] \in Range(LowerCaseLetters) \cup DigitChars \cup {"-", "_"}
  /\ NumberOf(t) = <<>>
  /\ t \notin FreeTextWords

\* C18: the references parseDependencies makes of a Dependencies text are
\* 'task-<n>' for every numeric token n and the token itself, once, for every
\* lowercase id token such as 'task-3' or 'setup_db'; free text such as 'and'
\* yields none, and no other reference appears.
C18_ReferencesAreTheTokens ==
  (pc = "done" /\ content.kind = "text") =>
    \A i \in 1..Len(content.matches) :
      "dependencies" \in DOMAIN content.matches[i] =>
        LET tokens == Tokens(content.matches[i].dependencies)
            refs == parsed[i].metadata.dependencies
        IN /\ refs = parseDependencies(content.matches[i].dependencies)
           /\ \A t \in Range(tokens) :
                 /\ NumberOf(t) # <<>> => ("task-" \o Str(NumberOf(t))) \in Range(refs)
                 /\ IsIdToken(t) => Str(t) \in Range(refs)
           /\ \A r \in Range(refs) :
                 \E t \in Range(tokens) :
                    \/ NumberOf(t) # <<>> /\ r = "task-" \o Str(NumberOf(t))
                    \/ IsIdToken(t) /\ r = Str(t)
           /\ Len(refs) <= Len(tokens)

(***************************************************************************)
(* Frame of compress                                                       *)
(***************************************************************************)
\* C19: compress leaves its input as it was: the context and every component
\* handed to packing, the order and contents of a dependency list included,
\* are unchanged when the call returns, and a second call on the same context
\* returns what the first returned.
C19_CompressLeavesInput ==
  CompressReturned =>
    /\ response.argument = request.context
    /\ compress(response.argument,
                IF "maxTokens" \in DOMAIN request
                THEN request.maxTokens ELSE DefaultMaxTokens).value = response.value

====
